---- MODULE Spec2Model ----
(***************************************************************************)
(* Model of the blockshare node's transaction pipeline:                    *)
(*   server/src/controllers/blockchainController.js  (submitTxn,           *)
(*                                  registerNode, checkBalanceByAdd)       *)
(*   server/src/utils/cryptoUtils.js                 (ledger and mempool)  *)
(* submitTxn and checkBalanceByAdd contain no await, so each such request  *)
(* runs to completion before the next one starts: one action per request.  *)
(* registerNode awaits the liveness probe once: two actions per request,   *)
(* and other requests may run in between.                                  *)
(***************************************************************************)
EXTENDS Integers, Sequences, FiniteSets, TLC

(* ---------------- bounds of the model ---------------- *)

\* Admissions are explored until the mempool file holds this many entries.
MaxMempool == 10

\* registerNode requests are explored until this many have been received.
MaxRegs == 3

(* ---------------- program constants ---------------- *)

\* cryptoUtils.js:79  `mempool.length > 8`
MEMPOOL_LIMIT == 8

(* ---------------- request inputs ---------------- *)

\* "A" has an account, "C" has none, "" is an absent field.
Senders == {"A", "C", ""}
Recipients == {"B", ""}
\* 0 is the falsy amount; -1 is negative; 1 exceeds a balance of 0.
Amounts == {-1, 0, 1}
\* The balance A's account may hold in the state file when the node starts.
Balances == {0, 2}
\* 0 is the falsy nonce; 1 is A's current nonce, 2 the next, 3 a future one.
Nonces == {0, 1, 2, 3}

\* The addresses a balance query may name: "A" has an account, "C" has none.
Addresses == {"A", "C"}

\* registerNode inputs: the caller's address, the port and the key it claims.
Ips == {"10.0.0.1"}
Ports == {3001, 3002}
PublicKeys == {"k1", "k2"}

NoTxn == [sender |-> "", recipient |-> "", amt |-> 0, nonce |-> 0, sign |-> ""]

VARIABLES
    blockchainState,  \* contents of STATE_FILE: address -> account
    mempool,          \* contents of MEMPOOL_FILE: sequence of transactions
    chain,            \* the local blockchain: sequence of blocks
    cycles,           \* mempool contents at each entry of the mine branch
    res,              \* outcome of the latest submitTxn request
    broadcast,        \* the transactions handed to broadcastTransaction
    balanceRes,       \* outcome of the latest checkBalanceByAdd request
    regs,             \* the registerNode requests received, in order of arrival
    peerNodes,        \* contents of the peer directory file
    pinged,           \* the registerNode requests for which pingNode was called
    wrote,            \* the registerNode requests that called savePeerNodes
    synced            \* the registerNode requests that called syncPeerDataWithOtherNodes

txnVars == <<blockchainState, mempool, chain, cycles, res, broadcast>>

peerVars == <<regs, peerNodes, pinged, wrote, synced>>

vars == <<blockchainState, mempool, chain, cycles, res, broadcast, balanceRes,
          regs, peerNodes, pinged, wrote, synced>>

(* ---------------- cryptoUtils.js ---------------- *)

\* crypto.createHash('sha256').update(data).digest('hex'), taken collision free
sha256(data) == "sha256(" \o data \o ")"

\* template literal `${sender}${recipient}${amt}${nonce}`
TxnData(sender, recipient, amt, nonce) ==
    sender \o recipient \o ToString(amt) \o ToString(nonce)

verifySignature(sender, recipient, amt, nonce, sign) ==
    sha256(TxnData(sender, recipient, amt, nonce)) = sign

\* readOk = FALSE is the catch branch: the state file could not be read or parsed
loadBlockchainState(readOk) ==
    IF readOk THEN blockchainState ELSE [a \in {} |-> 0]

\* verifyNonce with  >=  for  === : a nonce ahead of the account's next one passes
verifyNonce_AcceptsFuture(state, sender, nonce) ==
    IF sender \notin DOMAIN state
    THEN FALSE
    ELSE nonce >= state[sender].nonce + 1

verifyNonce(state, sender, nonce) ==
    IF sender \notin DOMAIN state
    THEN FALSE
    ELSE nonce = state[sender].nonce + 1

\* addToMempool with unshift for push: the transaction goes to the head
addToMempool_Prepends(pool, transaction) == <<transaction>> \o pool

\* the new contents of the mempool file after a successful push and write
addToMempool(pool, transaction) == Append(pool, transaction)

\* readOk = FALSE is the catch branch of isMempoolFull
isMempoolFull(pool, readOk) ==
    IF readOk THEN Len(pool) > MEMPOOL_LIMIT ELSE FALSE

\* empty body: the mempool file is left as it is
clearMempool(pool) == pool

\* `const balance = 0; // CPP function`: the argument is not used
getBalanceByAddress(address) == 0

(* ---------------- blockchainController.js ---------------- *)

\* JavaScript falsiness of a request field: the empty or absent string, the number 0
FalsyStr(v) == v = ""

FalsyNum(v) == v = 0

Response(status, error, transaction) ==
    [status |-> status, error |-> error, transaction |-> transaction]

\* No request handled yet.
Idle == Response(0, "", NoTxn)

\* The handler's promise rejected before res.status was called.
Uncaught == Response(0, "ReferenceError", NoTxn)

\* The signatures a client may send with the fields: the matching hash,
\* some other value, or none.
Signs(sender, recipient, amt, nonce) ==
    {sha256(TxnData(sender, recipient, amt, nonce)), "forged", ""}

Reject(status, error) ==
    /\ res' = Response(status, error, NoTxn)
    /\ UNCHANGED <<blockchainState, mempool, chain, cycles, broadcast>>

\* networkUtils.js: fire and forget; the transaction is handed to the peers
broadcastTransaction(sent, transaction) == sent \cup {transaction}

\* Admit that also debits the sender in the state file, crediting nobody
Admit_DebitsSender(transaction) ==
    /\ broadcast' = broadcastTransaction(broadcast, transaction)
    /\ mempool' = addToMempool(mempool, transaction)
    /\ blockchainState' = [blockchainState EXCEPT
           ![transaction.sender].balance = @ - transaction.amt]
    /\ res' = Response(200, "", transaction)
    /\ UNCHANGED <<chain, cycles>>

\* steps 3 and 4 of submitTxn: broadcast, add to the mempool, mine if full
Admit(transaction) ==
    /\ broadcast' = broadcastTransaction(broadcast, transaction)
    /\ \E addOk \in BOOLEAN :
         IF ~addOk
         THEN /\ res' = Response(500, "Failed to add transaction to mempool", NoTxn)
              /\ UNCHANGED <<blockchainState, mempool, chain, cycles>>
         ELSE \E fullOk \in BOOLEAN :
           /\ mempool' = addToMempool(mempool, transaction)
           /\ IF isMempoolFull(mempool', fullOk)
              THEN \* executeMempool is not imported by the controller: the
                   \* call throws, nothing after it in the handler runs
                   /\ cycles' = Append(cycles, mempool')
                   /\ res' = Uncaught
              ELSE /\ cycles' = cycles
                   /\ res' = Response(200, "", transaction)
           /\ UNCHANGED <<blockchainState, chain>>

\* submitTxn with step 3 moved before step 2: broadcast, then check the nonce
submitTxn_BroadcastFirst(sender, recipient, amt, nonce, sign) ==
    LET transaction == [sender |-> sender, recipient |-> recipient,
                        amt |-> amt, nonce |-> nonce, sign |-> sign]
    IN
    /\ Len(mempool) < MaxMempool
    /\ UNCHANGED <<balanceRes, regs, peerNodes, pinged, wrote, synced>>
    /\ IF FalsyStr(sender) \/ FalsyStr(recipient) \/ FalsyNum(amt) \/ FalsyNum(nonce) \/ FalsyStr(sign)
       THEN Reject(400, "All fields are required")
       ELSE IF ~verifySignature(sender, recipient, amt, nonce, sign)
       THEN Reject(400, "Invalid signature")
       ELSE \E stateOk \in BOOLEAN :
         IF ~verifyNonce(loadBlockchainState(stateOk), sender, nonce)
         THEN /\ res' = Response(400, "Invalid nonce", NoTxn)
              /\ broadcast' = broadcastTransaction(broadcast, transaction)
              /\ UNCHANGED <<blockchainState, mempool, chain, cycles>>
         ELSE Admit(transaction)

submitTxn(sender, recipient, amt, nonce, sign) ==
    LET transaction == [sender |-> sender, recipient |-> recipient,
                        amt |-> amt, nonce |-> nonce, sign |-> sign]
    IN
    /\ Len(mempool) < MaxMempool
    /\ UNCHANGED <<balanceRes, regs, peerNodes, pinged, wrote, synced>>
    /\ IF FalsyStr(sender) \/ FalsyStr(recipient) \/ FalsyNum(amt) \/ FalsyNum(nonce) \/ FalsyStr(sign)
       THEN Reject(400, "All fields are required")
       ELSE IF ~verifySignature(sender, recipient, amt, nonce, sign)
       THEN Reject(400, "Invalid signature")
       ELSE \E stateOk \in BOOLEAN :
         IF ~verifyNonce(loadBlockchainState(stateOk), sender, nonce)
         THEN Reject(400, "Invalid nonce")
         ELSE Admit(transaction)

(* ---------------- registerNode ---------------- *)

\* middlewares/nodeAuth.js: the signature that the holder of the private key
\* of public_key makes over (ip, provided_port)
NodeSign(ip, provided_port, public_key) ==
    "sig(" \o public_key \o "," \o ip \o ":" \o ToString(provided_port) \o ")"

verifyNodeSignature(ip, provided_port, sign, public_key) ==
    sign = NodeSign(ip, provided_port, public_key)

\* The signatures a registrant may send: the matching one or some other value.
NodeSigns(ip, provided_port, public_key) ==
    {NodeSign(ip, provided_port, public_key), "forged"}

\* fileUtils.js: the peer directory file as it is / after the write
loadPeerNodes == peerNodes

savePeerNodes(nodes) == nodes

RegRequest(ip, provided_port, public_key, sign, status, message) ==
    [ip |-> ip, provided_port |-> provided_port, public_key |-> public_key,
     sign |-> sign, status |-> status, message |-> message]

\* nodeExists with the second disjunct dropped: the key alone is compared
nodeExists_KeyOnly(nodes, ip, provided_port, public_key) ==
    \E i \in DOMAIN nodes : nodes[i].public_key = public_key

\* peerNodes.some(node => node.public_key === public_key || (node => ...)):
\* the second operand is an arrow function that is never called, and a
\* function object is truthy
nodeExists(nodes, ip, provided_port, public_key) ==
    \E i \in DOMAIN nodes :
        \/ nodes[i].public_key = public_key
        \/ TRUE

\* registerNode that starts the probe before it looks at the signature
registerNode_PingsFirst(ip, provided_port, public_key, sign) ==
    /\ Len(regs) < MaxRegs
    /\ pinged' = pinged \cup {Len(regs) + 1}
    /\ IF ~verifyNodeSignature(ip, provided_port, sign, public_key)
       THEN regs' = Append(regs, RegRequest(ip, provided_port, public_key, sign,
                                            403, "Invalid signature"))
       ELSE regs' = Append(regs, RegRequest(ip, provided_port, public_key, sign, 0, ""))
    /\ UNCHANGED <<peerNodes, wrote, synced, txnVars, balanceRes>>

\* registerNode up to `await pingNode(ip, provided_port)`: status 0 is a
\* request that waits for the probe
registerNode(ip, provided_port, public_key, sign) ==
    /\ Len(regs) < MaxRegs
    /\ IF ~verifyNodeSignature(ip, provided_port, sign, public_key)
       THEN /\ regs' = Append(regs, RegRequest(ip, provided_port, public_key, sign,
                                               403, "Invalid signature"))
            /\ pinged' = pinged
       ELSE /\ regs' = Append(regs, RegRequest(ip, provided_port, public_key, sign, 0, ""))
            /\ pinged' = pinged \cup {Len(regs) + 1}
    /\ UNCHANGED <<peerNodes, wrote, synced, txnVars, balanceRes>>

Answer(id, status, message) ==
    regs' = [regs EXCEPT ![id].status = status, ![id].message = message]

\* registerNode_afterPing that adds and saves the node before it looks at
\* the result of the probe
registerNode_afterPing_SavesFirst(id, isNodeActive) ==
    /\ id \in DOMAIN regs
    /\ regs[id].status = 0
    /\ LET r == regs[id]
           newNode == [ip |-> r.ip, provided_port |-> r.provided_port,
                       public_key |-> r.public_key]
       IN /\ peerNodes' = savePeerNodes(Append(loadPeerNodes, newNode))
          /\ wrote' = wrote \cup {id}
          /\ IF ~isNodeActive
             THEN Answer(id, 400, "Node verification failed") /\ synced' = synced
             ELSE Answer(id, 200, "Node registered successfully")
                  /\ synced' = synced \cup {id}
    /\ UNCHANGED <<pinged, txnVars, balanceRes>>

\* registerNode from the return of pingNode to the response
registerNode_afterPing(id, isNodeActive) ==
    /\ id \in DOMAIN regs
    /\ regs[id].status = 0
    /\ LET r == regs[id]
           newNode == [ip |-> r.ip, provided_port |-> r.provided_port,
                       public_key |-> r.public_key]
       IN IF ~isNodeActive
          THEN /\ Answer(id, 400, "Node verification failed")
               /\ UNCHANGED <<peerNodes, wrote, synced>>
          ELSE IF nodeExists(loadPeerNodes, r.ip, r.provided_port, r.public_key)
          THEN /\ Answer(id, 400, "Node already exists")
               /\ UNCHANGED <<peerNodes, wrote, synced>>
          ELSE /\ peerNodes' = savePeerNodes(Append(loadPeerNodes, newNode))
               /\ wrote' = wrote \cup {id}
               /\ synced' = synced \cup {id}
               /\ Answer(id, 200, "Node registered successfully")
    /\ UNCHANGED <<pinged, txnVars, balanceRes>>

(* ---------------- checkBalanceByAdd ---------------- *)

BalanceResponse(status, address, balance) ==
    [status |-> status, address |-> address, balance |-> balance]

checkBalanceByAdd(address) ==
    /\ \E stateOk \in BOOLEAN :
         LET state == loadBlockchainState(stateOk)
         IN IF address \notin DOMAIN state
            THEN balanceRes' = BalanceResponse(404, address, 0)
            ELSE balanceRes' = BalanceResponse(200, address, getBalanceByAddress(address))
    /\ UNCHANGED <<txnVars, peerVars>>

(* ---------------- specification ---------------- *)

Init ==
    /\ \E b \in Balances :
          blockchainState = [a \in {"A"} |-> [balance |-> b, nonce |-> 1]]
    /\ mempool = <<>>
    /\ chain = <<>>
    /\ cycles = <<>>
    /\ res = Idle
    /\ broadcast = {}
    /\ balanceRes = BalanceResponse(0, "", 0)
    /\ regs = <<>>
    /\ peerNodes = <<>>
    /\ pinged = {}
    /\ wrote = {}
    /\ synced = {}

Next ==
    \E sender \in Senders, recipient \in Recipients, amt \in Amounts, nonce \in Nonces :
        \E sign \in Signs(sender, recipient, amt, nonce) :
            submitTxn(sender, recipient, amt, nonce, sign)

Spec == Init /\ [][Next]_vars

\* transaction submissions and balance queries against the same ledger state
NextLedger ==
    \/ \E sender \in Senders, recipient \in Recipients, amt \in Amounts, nonce \in Nonces :
          \E sign \in Signs(sender, recipient, amt, nonce) :
              submitTxn(sender, recipient, amt, nonce, sign)
    \/ \E address \in Addresses : checkBalanceByAdd(address)

SpecLedger == Init /\ [][NextLedger]_vars

\* peer registrations; requests overlap while they wait for the probe
NextPeers ==
    \/ \E ip \in Ips, provided_port \in Ports, public_key \in PublicKeys :
          \E sign \in NodeSigns(ip, provided_port, public_key) :
              registerNode(ip, provided_port, public_key, sign)
    \/ \E id \in 1..MaxRegs, isNodeActive \in BOOLEAN :
          registerNode_afterPing(id, isNodeActive)

SpecPeers == Init /\ [][NextPeers]_vars

(* ---------------- helpers of the properties ---------------- *)

\* the transactions held by a sequence
Range(seq) == {seq[i] : i \in DOMAIN seq}

\* the transactions of every block of the chain
InBlocks == UNION {Range(chain[b].transactions) : b \in DOMAIN chain}

(* ---------------- properties ---------------- *)

\* C1: replay rejection. With no block applied in between, a transaction
\* that was accepted once is rejected when it is submitted again, so it is
\* never in the mempool twice.
C1_ReplayRejected ==
    chain = <<>> =>
        \A i, j \in DOMAIN mempool : i < j => mempool[i] # mempool[j]

\* C2: the mempool never holds two transactions with the same (sender, nonce).
C2_UniqueSenderNonce ==
    \A i, j \in DOMAIN mempool :
        i < j => ~(mempool[i].sender = mempool[j].sender
                   /\ mempool[i].nonce = mempool[j].nonce)

\* C3: the drain-and-produce cycle runs on the submission that brings the
\* mempool to exactly 8 transactions, not earlier and not later, and the
\* block it produces holds those 8 transactions.
C3_DrainAtEight ==
    /\ Len(mempool) >= 8 => cycles # <<>>
    /\ \A c \in DOMAIN cycles :
          /\ Len(cycles[c]) = 8
          /\ \E b \in DOMAIN chain : chain[b].transactions = cycles[c]

\* C4: every submitTxn request ends with a response (200, 400 or 500), the
\* request that starts block production included.
C4_AlwaysResponds ==
    res = Idle \/ res.status \in {200, 400, 500}

\* C5: the mempool never holds more than 8 transactions.
C5_MempoolBounded == Len(mempool) <= 8

\* C6: a request that runs the drain-and-produce cycle leaves the mempool
\* empty, and every transaction that was in the mempool when the cycle
\* started is in the block the cycle produced (the code reports no
\* rejections).
C6_DrainExact ==
    [][Len(cycles') > Len(cycles) =>
          /\ mempool' = <<>>
          /\ Len(chain') = Len(chain) + 1
          /\ chain'[Len(chain')].transactions = cycles'[Len(cycles')]]_vars

\* C7: no transaction is in two blocks, and a transaction that was in the
\* mempool of one drain-and-produce cycle is not in the mempool of a later one.
C7_NoDoubleInclusion ==
    /\ \A a, b \in DOMAIN chain :
          a < b => Range(chain[a].transactions) \cap Range(chain[b].transactions) = {}
    /\ \A c, d \in DOMAIN cycles :
          c < d => Range(cycles[c]) \cap Range(cycles[d]) = {}

\* C8: a request is admitted to the mempool only if its sender has an account
\* in the ledger state and its nonce is that account's nonce + 1; a request
\* whose sender is unknown or whose
\* nonce is older or newer than that can only be answered 400, leaving the
\* mempool as it was.
NonceOk(sender, nonce) ==
    /\ sender \in DOMAIN blockchainState
    /\ nonce = blockchainState[sender].nonce + 1

C8_NonceGate ==
    /\ \A i \in DOMAIN mempool : NonceOk(mempool[i].sender, mempool[i].nonce)
    /\ \A sender \in Senders, recipient \in Recipients, amt \in Amounts, nonce \in Nonces :
         \A sign \in Signs(sender, recipient, amt, nonce) :
           ~NonceOk(sender, nonce) =>
             ~ENABLED (/\ submitTxn(sender, recipient, amt, nonce, sign)
                       /\ ~(res'.status = 400 /\ mempool' = mempool))

\* C8 witness: requests were admitted and the latest one was turned down by
\* the nonce check.
C8_Witness ==
    /\ mempool # <<>>
    /\ res.status = 400
    /\ res.error = "Invalid nonce"

\* C9: a transaction whose amount exceeds its sender's balance never enters
\* the mempool.
C9_SufficientFunds ==
    \A i \in DOMAIN mempool :
        /\ mempool[i].sender \in DOMAIN blockchainState
        /\ mempool[i].amt <= blockchainState[mempool[i].sender].balance

\* C10: every transaction in the mempool has a strictly positive amount.
C10_PositiveAmount ==
    \A i \in DOMAIN mempool : mempool[i].amt > 0

\* a directory entry that has the key or the (address, port) of a request
Matches(node, r) ==
    \/ node.public_key = r.public_key
    \/ node.ip = r.ip /\ node.provided_port = r.provided_port

\* C11: a registration is turned down as a duplicate only when an entry of
\* the directory has its public key or its (address, port), and a
\* registration answered 200 is in the directory.
C11_DuplicateExactly ==
    \A id \in DOMAIN regs :
        /\ regs[id].message = "Node already exists" =>
              \E i \in DOMAIN peerNodes : Matches(peerNodes[i], regs[id])
        /\ regs[id].status = 200 =>
              \E i \in DOMAIN peerNodes :
                  /\ peerNodes[i].public_key = regs[id].public_key
                  /\ peerNodes[i].ip = regs[id].ip
                  /\ peerNodes[i].provided_port = regs[id].provided_port

\* C12: no two entries of the peer directory have the same public key, and
\* no two have the same (address, port), whatever the interleaving of the
\* registrations.
C12_UniquePeers ==
    \A i, j \in DOMAIN peerNodes :
        i < j =>
            /\ peerNodes[i].public_key # peerNodes[j].public_key
            /\ ~(peerNodes[i].ip = peerNodes[j].ip
                 /\ peerNodes[i].provided_port = peerNodes[j].provided_port)

\* C12 witness: one registration is in the directory, another one with the
\* same (address, port) and a different key was turned down, and a third is
\* still waiting for its probe.
C12_Witness ==
    /\ Len(peerNodes) = 1
    /\ \E a, b \in DOMAIN regs :
          /\ regs[a].message = "Node already exists"
          /\ regs[a].provided_port = peerNodes[1].provided_port
          /\ regs[a].public_key # peerNodes[1].public_key
          /\ regs[b].status = 0

\* C13: a registration whose signature does not verify is answered 403; no
\* probe, directory write or peer-list sync is made for it, and the step
\* that answers it leaves the directory as it was.
C13_BadSignature ==
    [][\A id \in DOMAIN regs' :
          ~verifyNodeSignature(regs'[id].ip, regs'[id].provided_port,
                               regs'[id].sign, regs'[id].public_key) =>
             /\ regs'[id].status = 403
             /\ id \notin (pinged' \cup wrote' \cup synced')
             /\ id \notin DOMAIN regs => peerNodes' = peerNodes]_vars

\* C13 witness: a registration was answered 403 while the directory holds a
\* node and another registration waits for its probe.
C13_Witness ==
    /\ peerNodes # <<>>
    /\ \E a, b \in DOMAIN regs : regs[a].status = 403 /\ regs[b].status = 0

\* C14: a registration whose probe fails can only be answered 400, with the
\* directory neither changed nor written; no registration that waits for
\* its probe or whose probe failed has written the directory.
C14_ProbeGate ==
    \A id \in DOMAIN regs :
        /\ regs[id].status = 0 =>
              /\ id \notin wrote
              /\ ~ENABLED (/\ registerNode_afterPing(id, FALSE)
                           /\ ~(/\ regs'[id].status = 400
                                /\ peerNodes' = peerNodes
                                /\ wrote' = wrote))
        /\ regs[id].message = "Node verification failed" =>
              /\ regs[id].status = 400
              /\ id \notin (wrote \cup synced)

\* C14 witness: a probe failed while the directory holds a node.
C14_Witness ==
    /\ peerNodes # <<>>
    /\ \E id \in DOMAIN regs : regs[id].message = "Node verification failed"

\* C15: a balance query answered 200 carries the balance stored for the
\* account of the address it names; a query for an address without an
\* account is answered 404.
C15_BalanceQuery ==
    /\ balanceRes.status = 200 =>
          /\ balanceRes.address \in DOMAIN blockchainState
          /\ balanceRes.balance = blockchainState[balanceRes.address].balance
    /\ (balanceRes.status # 0 /\ balanceRes.address \notin DOMAIN blockchainState)
          => balanceRes.status = 404

\* What a party computes from the four public fields of a transaction: the
\* hash function is public and takes no key.
PublicSign(transaction) ==
    sha256(TxnData(transaction.sender, transaction.recipient,
                   transaction.amt, transaction.nonce))

\* C16: no transaction in the mempool carries a signature that a party
\* knowing only its public fields, and no private key, could have produced.
C16_Authenticated ==
    \A i \in DOMAIN mempool : mempool[i].sign # PublicSign(mempool[i])

\* the sum of the balances of the accounts in addrs
RECURSIVE SumBalances(_, _)
SumBalances(state, addrs) ==
    IF addrs = {}
    THEN 0
    ELSE LET a == CHOOSE x \in addrs : TRUE
         IN state[a].balance + SumBalances(state, addrs \ {a})

TotalBalance(state) == SumBalances(state, DOMAIN state)

C18_RejectionFrame ==
    [][res'.status = 400 =>
          /\ mempool' = mempool
          /\ blockchainState' = blockchainState
          /\ broadcast' = broadcast]_vars

\* C18 witness: after transactions were admitted and broadcast, the latest
\* request was answered 400 for its signature.
C18_Witness ==
    /\ res.status = 400
    /\ res.error = "Invalid signature"
    /\ broadcast # {}
    /\ Range(mempool) = broadcast

\* C19: the mempool keeps admission order: a request either leaves the
\* mempool as it was or appends one transaction at its tail, and an accepted
\* request's transaction is that last entry.
C19_AppendOnly ==
    [][\/ mempool' = mempool
       \/ /\ Len(mempool') = Len(mempool) + 1
          /\ SubSeq(mempool', 1, Len(mempool)) = mempool
          /\ res'.status = 200 => mempool'[Len(mempool')] = res'.transaction]_vars

\* C19 witness: the mempool holds two different transactions.
C19_Witness ==
    /\ Len(mempool) >= 2
    /\ mempool[1] # mempool[2]
    /\ res.status = 200

\* C20: every transaction that was broadcast to the peers is one the node
\* admitted to its mempool.
C20_BroadcastOnlyAdmitted ==
    broadcast \subseteq Range(mempool)
====
